---- MODULE Spec2Model ----
(***************************************************************************)
(* RayLink (src/main.py, src/utils.py): the scrape, merge, persist, export *)
(* and forward pipeline of main(), with one asyncio task per channel.      *)
(*                                                                         *)
(* The modules scrapper, extractor, duplicate and manager are imported by  *)
(* main.py but are not part of the sources at hand; what they do is taken  *)
(* from the specification (sections 4.1, 4.2 and 4.4).                     *)
(***************************************************************************)
EXTENDS Integers, Sequences, FiniteSets, TLC

\* ------------------------------------------------------------------ bounds
\* Largest number of channels in the channel list.
MaxChannels == 2

\* Largest number of descriptor strings one channel worker accumulates.
MaxLinks == 3

\* Largest number of words in the text of one post.
MaxWords == 2

\* ------------------------------------------------------- data (main.py:48)
\* The keys of every links dict, in the insertion order of the dict literal.
Protocols == <<"vmess", "vless", "ss", "trojan", "ssr">>

ProtocolSet == {Protocols[k] : k \in 1..Len(Protocols)}

\* {"vmess": [], "vless": [], "ss": [], "trojan": [], "ssr": []}
EmptyBucket == [p \in ProtocolSet |-> <<>>]

\* The words a post's text is made of: descriptor strings of a protocol
\* family, and plain text that matches no family.
Words ==
    { [proto |-> "vmess", link |-> "x"],
      [proto |-> "vmess", link |-> "y"],
      [proto |-> "ss",    link |-> "x"],
      [proto |-> "none",  link |-> "hello"] }

RECURSIVE SeqsUpTo(_, _)
SeqsUpTo(S, n) ==
    IF n = 0 THEN {<<>>}
    ELSE LET shorter == SeqsUpTo(S, n - 1)
         IN  shorter \cup {Append(s, w) : s \in shorter, w \in S}

\* A post: it may lack the content attribute, and its content may be empty.
Posts(n) ==
    {[attr |-> FALSE, content |-> <<>>]}
        \cup {[attr |-> TRUE, content |-> c] : c \in SeqsUpTo(Words, n)}

\* sum(len(v) for v in links.values())
RECURSIVE SumLens(_, _)
SumLens(links, k) ==
    IF k = 0 THEN 0 ELSE Len(links[Protocols[k]]) + SumLens(links, k - 1)

TotalLinks(links) == SumLens(links, Len(Protocols))

\* ------------------------------------------ collaborators (from the spec)
\* extractor.VPNLinkExtractor.extract_links: per protocol family, the
\* descriptor strings of that family in the order they occur in the text.
RECURSIVE MatchesOf(_, _)
MatchesOf(content, p) ==
    IF content = <<>> THEN <<>>
    ELSE (IF Head(content).proto = p THEN <<Head(content).link>> ELSE <<>>)
             \o MatchesOf(Tail(content), p)

extract_links(content) == [p \in ProtocolSet |-> MatchesOf(content, p)]

\* duplicate.DuplicateChecker.deduplicate_links: one walk per protocol with
\* a seen-set, keeping a string on its first occurrence only.
RECURSIVE DedupSeq(_, _)
DedupSeq(s, seen) ==
    IF s = <<>> THEN <<>>
    ELSE IF Head(s) \in seen THEN DedupSeq(Tail(s), seen)
    ELSE <<Head(s)>> \o DedupSeq(Tail(s), seen \cup {Head(s)})

deduplicate_links(bucket) == [p \in ProtocolSet |-> DedupSeq(bucket[p], {})]

\* manager.LinkManager.export_for_testing: every descriptor string of every
\* protocol, one per line.
RECURSIVE FlattenFrom(_, _)
FlattenFrom(links, k) ==
    IF k > Len(Protocols) THEN <<>>
    ELSE links[Protocols[k]] \o FlattenFrom(links, k + 1)

export_for_testing(links) == FlattenFrom(links, 1)

\* ------------------------------- read_channels_from_file (utils.py:1-12)
\* A line of the file is the sequence of its characters.
Whitespace == {" ", "\n"}

RECURSIVE LStrip(_)
LStrip(line) ==
    IF line # <<>> /\ Head(line) \in Whitespace THEN LStrip(Tail(line)) ELSE line

RECURSIVE RStrip(_)
RStrip(line) ==
    IF line # <<>> /\ line[Len(line)] \in Whitespace
    THEN RStrip(SubSeq(line, 1, Len(line) - 1))
    ELSE line

\* A strip that leaves the end of the line alone.
StripLeftOnly(line) == LStrip(line)

\* utils.py:5: line.strip()
strip(line) == RStrip(LStrip(line))

\* utils.py:5: [line.strip() for line in f if line.strip()]
RECURSIVE StrippedLines(_)
StrippedLines(lines) ==
    IF lines = <<>> THEN <<>>
    ELSE (IF strip(Head(lines)) # <<>> THEN <<strip(Head(lines))>> ELSE <<>>)
             \o StrippedLines(Tail(lines))

\* utils.py:3-12: the list of the file, or [] when open() or the read raises.
read_channels_from_file(f) ==
    IF f.exists /\ f.readable THEN StrippedLines(f.lines) ELSE <<>>

\* The channel files of the model: none, one that cannot be read, an empty
\* one, one of blank lines only, and for every k up to MaxChannels one that
\* names k channels, last name first, between blank lines and with spaces
\* around every other name.
Digits == <<"1", "2", "3", "4", "5", "6", "7", "8", "9">>

ChannelName(k) == <<"c", Digits[k]>>

NamedLines(k) ==
    IF k % 2 = 1
    THEN << <<"\n">>, <<" ">> \o ChannelName(k) \o <<" ", "\n">> >>
    ELSE << ChannelName(k) \o <<"\n">>, <<" ", "\n">> >>

RECURSIVE LinesNaming(_)
LinesNaming(k) == IF k = 0 THEN <<>> ELSE NamedLines(k) \o LinesNaming(k - 1)

FileOf(lines) == [exists |-> TRUE, readable |-> TRUE, lines |-> lines]

Files ==
    { [exists |-> FALSE, readable |-> FALSE, lines |-> <<>>],
      [exists |-> TRUE, readable |-> FALSE, lines |-> <<>>],
      FileOf(<< <<"\n">>, <<" ", "\n">> >>) }
        \cup {FileOf(LinesNaming(k)) : k \in 0..MaxChannels}

\* ------------------------------------------------------------------ state
VARIABLES
    file,         \* the channel file at args.input
    mainpc,       \* where main() is
    channels,     \* read_channels_from_file(args.input)
    export_only,  \* args.export_only
    running,      \* the task the event loop's thread is executing, 0 if none
    wpc,          \* per channel task: where scrape_channel is
    stuck,        \* per channel task: its fetch never returns
    all_links,    \* per channel task: the local all_links
    post,         \* the running task's loop variable: <<>> or <<the post>>
    result,       \* per channel task: what gather holds for it
    completion,   \* the channel tasks in the order they finished
    links,        \* main's links
    persisted,    \* what save_links wrote
    exported,     \* what export_for_testing wrote
    body,         \* the lines of the forward request's file
    response,     \* what the forward endpoint answered
    ack,          \* what send_links returned
    calls,        \* the sink operations main invoked, in order
    error         \* the call that raised into main's try block, if any

vars == <<file, mainpc, channels, export_only, running, wpc, stuck, all_links,
          post, result, completion, links, persisted, exported, body, response, ack,
          calls, error>>

workerVars == <<running, wpc, stuck, all_links, post, result, completion>>
sinkVars == <<persisted, exported, body, response, ack, calls, error>>

Workers == DOMAIN wpc

\* What gather holds for a task: the dict it returned, or the exception
\* that left it.
DictResult(b) == [type |-> "dict", value |-> b]
ExcResult == [type |-> "exception", value |-> EmptyBucket]
NoResult == [type |-> "none", value |-> EmptyBucket]

\* What the forward endpoint can answer: no answer at all (a transport
\* error), or a status with a body that is JSON or is not.
NoResponse == [transport_ok |-> FALSE, status |-> 0, json |-> FALSE]

Responses ==
    { [transport_ok |-> TRUE, status |-> 200, json |-> TRUE],
      [transport_ok |-> TRUE, status |-> 200, json |-> FALSE],
      [transport_ok |-> TRUE, status |-> 204, json |-> TRUE],
      [transport_ok |-> TRUE, status |-> 500, json |-> FALSE],
      NoResponse }

Settled(i) == wpc[i] \in {"done", "failed", "escaped"}

Init ==
    /\ file \in Files
    /\ mainpc = "start"
    /\ channels = <<>>
    /\ export_only = FALSE
    /\ running = 0
    /\ wpc = <<>>
    /\ stuck = <<>>
    /\ all_links = <<>>
    /\ post = <<>>
    /\ result = <<>>
    /\ completion = <<>>
    /\ links = EmptyBucket
    /\ persisted = <<>>
    /\ exported = <<>>
    /\ body = <<>>
    /\ response = NoResponse
    /\ ack = "none"
    /\ calls = <<>>
    /\ error = "none"

\* ------------------------------------------------- main, before the scrape
\* main.py:194-207: the arguments and the channel list.
ReadArgs ==
    /\ mainpc = "start"
    /\ channels' = read_channels_from_file(file)
    /\ export_only' \in BOOLEAN
    /\ mainpc' = "scrape"
    /\ UNCHANGED <<file, workerVars, links, sinkVars>>

\* main.py:71-72: one coroutine per channel, all handed to gather.
Launch ==
    /\ mainpc = "scrape"
    /\ wpc' = [i \in 1..Len(channels) |-> "pending"]
    /\ stuck' = [i \in 1..Len(channels) |-> FALSE]
    /\ all_links' = [i \in 1..Len(channels) |-> EmptyBucket]
    /\ result' = [i \in 1..Len(channels) |-> NoResult]
    /\ mainpc' = "gather"
    /\ UNCHANGED <<file, channels, export_only, running, post, completion, links,
                   sinkVars>>

\* --------------------------------------- scrape_channel (main.py:41-67)
\* all_links[protocol].extend(links[protocol]) for every protocol.
Extend(bucket, more) == [p \in ProtocolSet |-> bucket[p] \o more[p]]

\* main.py:51: hasattr(post, "content") and post.content
HasContent(p) == p.attr /\ p.content # <<>>

\* A loop body that puts the matches of a post in front of the bucket.
AfterPostPrepends(bucket, p) ==
    IF p.attr /\ p.content # <<>> THEN Extend(extract_links(p.content), bucket)
    ELSE bucket

\* main.py:51-54: one pass of the loop body over a post.
AfterPost(bucket, p) ==
    IF HasContent(p) THEN Extend(bucket, extract_links(p.content))
    ELSE bucket

\* main.py:65: the handler takes what derives from Exception and nothing
\* else.
Caught(kind) == kind = "Exception"

\* A handler that hands back what was extracted before the failure.
FailedBucketKeepsPartial(partial) == partial

\* main.py:67: what the handler returns, whatever was extracted so far.
FailedBucket(partial) == EmptyBucket

\* What can be raised inside the try block.
ErrorKinds == {"Exception", "BaseException"}

\* The event loop gives its thread to a task that has not started; which
\* one it takes first is left open, so that tasks may finish in any order.
\* The coroutine holds no await (main.py:41-67), so the task keeps the
\* thread until it returns.
StartWorker(i) ==
    /\ mainpc = "gather"
    /\ running = 0
    /\ wpc[i] = "pending"
    /\ running' = i
    /\ wpc' = [wpc EXCEPT ![i] = "fetching"]
    /\ UNCHANGED <<file, mainpc, channels, export_only, stuck, all_links, post,
                   result, completion, links, sinkVars>>

\* main.py:45-48: the scraper hands over the channel's posts.
FetchOk(i) ==
    /\ running = i
    /\ wpc[i] = "fetching"
    /\ ~stuck[i]
    /\ wpc' = [wpc EXCEPT ![i] = "extracting"]
    /\ all_links' = [all_links EXCEPT ![i] = EmptyBucket]
    /\ UNCHANGED <<file, mainpc, channels, export_only, running, stuck, post,
                   result, completion, links, sinkVars>>

\* main.py:45-46: the call into the scraper never returns.
FetchNever(i) ==
    /\ running = i
    /\ wpc[i] = "fetching"
    /\ ~stuck[i]
    /\ stuck' = [stuck EXCEPT ![i] = TRUE]
    /\ UNCHANGED <<file, mainpc, channels, export_only, running, wpc, all_links,
                   post, result, completion, links, sinkVars>>

\* main.py:50: the loop takes the next post.
TakePost(i) ==
    /\ running = i
    /\ wpc[i] = "extracting"
    /\ post = <<>>
    /\ \E next \in Posts(MaxWords) :
          /\ TotalLinks(AfterPost(all_links[i], next)) <= MaxLinks
          /\ post' = <<next>>
    /\ UNCHANGED <<file, mainpc, channels, export_only, running, wpc, stuck,
                   all_links, result, completion, links, sinkVars>>

\* main.py:51-54: the loop body over the post taken.
ExtractPost(i) ==
    /\ running = i
    /\ wpc[i] = "extracting"
    /\ post # <<>>
    /\ all_links' = [all_links EXCEPT ![i] = AfterPost(@, post[1])]
    /\ post' = <<>>
    /\ UNCHANGED <<file, mainpc, channels, export_only, running, wpc, stuck, result,
                   completion, links, sinkVars>>

\* main.py:50: the posts are exhausted.
EndPosts(i) ==
    /\ running = i
    /\ wpc[i] = "extracting"
    /\ post = <<>>
    /\ wpc' = [wpc EXCEPT ![i] = "deduplicating"]
    /\ UNCHANGED <<file, mainpc, channels, export_only, running, stuck, all_links,
                   post, result, completion, links, sinkVars>>

\* A local pass that hands the bucket back as it came.
LocalPassKeepsAll(bucket) == bucket

\* A local pass with one seen-set for all five protocols.
RECURSIVE SharedSeenFrom(_, _, _)
SharedSeenFrom(bucket, k, seen) ==
    IF k > Len(Protocols) THEN <<>>
    ELSE LET kept == DedupSeq(bucket[Protocols[k]], seen)
         IN  <<kept>> \o SharedSeenFrom(bucket, k + 1,
                                        seen \cup {kept[j] : j \in 1..Len(kept)})

LocalPassSharedSeen(bucket) ==
    LET kept == SharedSeenFrom(bucket, 1, {})
    IN  [p \in ProtocolSet |->
            kept[CHOOSE k \in 1..Len(Protocols) : Protocols[k] = p]]

\* main.py:56-58: the pass over this channel's bucket, by a DuplicateChecker
\* made for this channel alone.
LocalPass(bucket) == deduplicate_links(bucket)

\* main.py:56-63: the local pass, and the return of its result.
Dedup(i) ==
    /\ running = i
    /\ wpc[i] = "deduplicating"
    /\ wpc' = [wpc EXCEPT ![i] = "done"]
    /\ all_links' = [all_links EXCEPT ![i] = LocalPass(@)]
    /\ result' = [result EXCEPT ![i] = DictResult(all_links'[i])]
    /\ running' = 0
    /\ completion' = Append(completion, i)
    /\ UNCHANGED <<file, mainpc, channels, export_only, stuck, post, links,
                   sinkVars>>

\* main.py:60-63 without main.py:56-58: a scrape_channel that returns its
\* bucket as the loop left it.
ReturnRaw(i) ==
    /\ running = i
    /\ wpc[i] = "deduplicating"
    /\ wpc' = [wpc EXCEPT ![i] = "done"]
    /\ result' = [result EXCEPT ![i] = DictResult(all_links[i])]
    /\ running' = 0
    /\ completion' = Append(completion, i)
    /\ UNCHANGED <<file, mainpc, channels, export_only, stuck, all_links, post,
                   links, sinkVars>>

\* A handler that puts the channel back in line for another attempt.
RaiseRetries(i) ==
    /\ running = i
    /\ wpc[i] \in {"fetching", "extracting", "deduplicating"}
    /\ ~stuck[i]
    /\ wpc' = [wpc EXCEPT ![i] = "pending"]
    /\ all_links' = [all_links EXCEPT ![i] = EmptyBucket]
    /\ post' = <<>>
    /\ running' = 0
    /\ UNCHANGED <<file, mainpc, channels, export_only, stuck, result,
                   completion, links, sinkVars>>

\* A worker that a timeout takes out of a fetch that never returns.
RaiseWithTimeout(i) ==
    /\ running = i
    /\ wpc[i] \in {"fetching", "extracting", "deduplicating"}
    /\ post # <<>> => HasContent(post[1])
    /\ \E kind \in ErrorKinds :
          IF Caught(kind)
          THEN /\ wpc' = [wpc EXCEPT ![i] = "failed"]
               /\ result' = [result EXCEPT ![i] = DictResult(FailedBucket(all_links[i]))]
          ELSE /\ wpc' = [wpc EXCEPT ![i] = "escaped"]
               /\ result' = [result EXCEPT ![i] = ExcResult]
    /\ all_links' = [all_links EXCEPT ![i] = EmptyBucket]
    /\ post' = <<>>
    /\ running' = 0
    /\ completion' = Append(completion, i)
    /\ UNCHANGED <<file, mainpc, channels, export_only, stuck, links, sinkVars>>

\* main.py:43-67: something is raised inside the try block, while fetching,
\* extracting or deduplicating. main.py:65-67 turns an Exception into the
\* empty dict; anything else leaves the coroutine and gather keeps it as the
\* task's result (main.py:72, return_exceptions=True). Either way the locals
\* are gone with the frame. With a post taken it is extract_links that
\* raises, which main.py:51 calls for a post with content only.
Raise(i) ==
    /\ running = i
    /\ wpc[i] \in {"fetching", "extracting", "deduplicating"}
    /\ ~stuck[i]
    /\ post # <<>> => HasContent(post[1])
    /\ \E kind \in ErrorKinds :
          IF Caught(kind)
          THEN /\ wpc' = [wpc EXCEPT ![i] = "failed"]
               /\ result' = [result EXCEPT ![i] = DictResult(FailedBucket(all_links[i]))]
          ELSE /\ wpc' = [wpc EXCEPT ![i] = "escaped"]
               /\ result' = [result EXCEPT ![i] = ExcResult]
    /\ all_links' = [all_links EXCEPT ![i] = EmptyBucket]
    /\ post' = <<>>
    /\ running' = 0
    /\ completion' = Append(completion, i)
    /\ UNCHANGED <<file, mainpc, channels, export_only, stuck, links, sinkVars>>

\* ----------------------------------- scrape_all_channels (main.py:69-84)
\* A gather that lists the results in the order the tasks finished.
GatherByCompletion == [k \in 1..Len(completion) |-> result[completion[k]]]

\* main.py:72: gather's list holds the tasks' results in the order the
\* coroutines were passed, whatever the order they finished in.
GatherResults == [k \in 1..Len(channels) |-> result[k]]

\* A merge loop without the isinstance check.
IsDictAlways(r) == TRUE

\* main.py:77: isinstance(result, dict)
IsDict(r) == r.type = "dict"

\* main.py:79: result[protocol] raises when a result the loop lets through
\* is no dict.
MergeRaises(results) ==
    \E k \in 1..Len(results) : IsDict(results[k]) /\ results[k].type # "dict"

RECURSIVE MergeFrom(_, _, _)

\* A merge that puts each result in front of what was merged before it.
MergeFromPrepend(results, k, combined) ==
    IF k > Len(results) THEN combined
    ELSE MergeFrom(results, k + 1,
                   IF results[k].type = "dict" THEN Extend(results[k].value, combined)
                   ELSE combined)

\* main.py:74-79: the results that are dicts, appended protocol by protocol
\* in list order.
MergeFrom(results, k, combined) ==
    IF k > Len(results) THEN combined
    ELSE MergeFrom(results, k + 1,
                   IF IsDict(results[k]) THEN Extend(combined, results[k].value)
                   ELSE combined)

Merge(results) == MergeFrom(results, 1, EmptyBucket)

\* A scrape_all_channels that returns the merge without the global pass.
GlobalPassKeepsAll(combined) == combined

\* main.py:81-82: the pass over the merged bucket, by the scraper's own
\* DuplicateChecker.
GlobalPass(combined) == deduplicate_links(combined)

\* A scrape_all_channels that goes on to the merge without waiting for the
\* tasks.
AggregateWithoutBarrier ==
    /\ mainpc = "gather"
    /\ running = 0
    /\ links' = GlobalPass(Merge(GatherResults))
    /\ mainpc' = "scraped"
    /\ UNCHANGED <<file, channels, export_only, workerVars, sinkVars>>

\* main.py:72-84 and 211: gather resumes main once every task has finished;
\* the merge and the global pass follow without a suspension point. An
\* exception of the merge reaches main's handler (main.py:241-243).
Aggregate ==
    /\ mainpc = "gather"
    /\ running = 0
    /\ \A i \in Workers : Settled(i)
    /\ IF MergeRaises(GatherResults)
       THEN /\ links' = links
            /\ error' = "scrape_all_channels"
            /\ mainpc' = "error"
       ELSE /\ links' = GlobalPass(Merge(GatherResults))
            /\ error' = error
            /\ mainpc' = "scraped"
    /\ UNCHANGED <<file, channels, export_only, workerVars, persisted, exported,
                   body, response, ack, calls>>

\* ------------------------------------------- main, after the scrape
\* A main without the soft stop.
AfterScrapeAlwaysSaves(total) == "save"

\* A main that forwards before it saves.
AfterScrapeForwardsFirst(total) == IF total = 0 THEN "exit_zero" ELSE "forward"

\* main.py:213-218: the soft stop on an empty result.
AfterScrape(total) == IF total = 0 THEN "exit_zero" ELSE "save"

\* A main that logs the exception of save_links and goes on.
AfterSaveSwallows(raised) == "export"

\* main.py:227 and 241-243: an exception of save_links is logged and
\* re-raised.
AfterSave(raised) == IF raised THEN "error" ELSE "export"

\* A main that does not look at --export-only.
AfterExportIgnoresFlag(raised, only) == IF raised THEN "error" ELSE "forward"

\* main.py:230-234 and 241-243.
AfterExport(raised, only) ==
    IF raised THEN "error"
    ELSE IF only THEN "exit_export_only"
    ELSE "forward"

\* main.py:237-243.
AfterSend(raised) == IF raised THEN "error" ELSE "exit_success"

\* main.py:213-218.
CheckTotal ==
    /\ mainpc = "scraped"
    /\ mainpc' = AfterScrape(TotalLinks(links))
    /\ UNCHANGED <<file, channels, export_only, workerVars, links, sinkVars>>

\* main.py:221-226.
Metadata == [channels |-> channels, version |-> "1.1.0", validation_enabled |-> TRUE]

\* main.py:220-227: save_links writes the aggregate and the metadata, or
\* raises.
SaveLinks ==
    /\ mainpc = "save"
    /\ calls' = Append(calls, "persist")
    /\ \E raised \in BOOLEAN :
          /\ persisted' = IF raised THEN persisted
                          ELSE <<[links |-> links, metadata |-> Metadata]>>
          /\ error' = IF raised THEN "save_links" ELSE error
          /\ mainpc' = AfterSave(raised)
    /\ UNCHANGED <<file, channels, export_only, workerVars, links, exported, body,
                   response, ack>>

\* main.py:229-234: export_for_testing writes the flattened file, or raises;
\* then the --export-only exit.
ExportForTesting ==
    /\ mainpc = "export"
    /\ calls' = Append(calls, "export")
    /\ \E raised \in BOOLEAN :
          /\ exported' = IF raised THEN exported ELSE <<export_for_testing(links)>>
          /\ error' = IF raised THEN "export_for_testing" ELSE error
          /\ mainpc' = AfterExport(raised, export_only)
    /\ UNCHANGED <<file, channels, export_only, workerVars, links, persisted, body,
                   response, ack>>

\* ------------------------------- NamiraInterface.send_links (main.py:128-158)
\* str(link) of a list of strings: its repr.
RECURSIVE PyReprItems(_)
PyReprItems(list) ==
    IF list = <<>> THEN ""
    ELSE "'" \o Head(list) \o "'"
             \o (IF Len(list) > 1 THEN ", " ELSE "")
             \o PyReprItems(Tail(list))

PyStr(list) == "[" \o PyReprItems(list) \o "]"

\* main.py:131: "\n".join(str(link) for link in links_dict.values()), as the
\* sequence of the lines joined.
links_content(links_dict) ==
    [k \in 1..Len(Protocols) |-> PyStr(links_dict[Protocols[k]])]

\* main.py:134-150: what raises inside the try block: the session or the
\* post on a transport error, response.json() on a body that is not JSON.
RaisesInTry(resp) ==
    \/ ~resp.transport_ok
    \/ (resp.status = 200 /\ ~resp.json)

\* A send_links without the handler, raising on every status but 200.
send_links_raises(resp) ==
    IF RaisesInTry(resp) \/ resp.status # 200 THEN [raised |-> TRUE, value |-> "empty"]
    ELSE [raised |-> FALSE, value |-> "json"]

\* main.py:130-158: the handler and the status check both return {}.
send_links(resp) ==
    IF RaisesInTry(resp) THEN [raised |-> FALSE, value |-> "empty"]
    ELSE IF resp.status = 200 THEN [raised |-> FALSE, value |-> "json"]
    ELSE [raised |-> FALSE, value |-> "empty"]

\* main.py:236-239.
SendLinks ==
    /\ mainpc = "forward"
    /\ calls' = Append(calls, "forward")
    /\ body' = links_content(links)
    /\ \E resp \in Responses :
          LET r == send_links(resp)
          IN  /\ response' = resp
              /\ ack' = IF r.raised THEN ack ELSE r.value
              /\ error' = IF r.raised THEN "send_links" ELSE error
              /\ mainpc' = AfterSend(r.raised)
    /\ UNCHANGED <<file, channels, export_only, workerVars, links, persisted, exported>>

\* ----------------------------------------------------------- specification
Next ==
    \/ ReadArgs
    \/ Launch
    \/ \E i \in Workers : StartWorker(i)
    \/ \E i \in Workers : FetchOk(i)
    \/ \E i \in Workers : FetchNever(i)
    \/ \E i \in Workers : TakePost(i)
    \/ \E i \in Workers : ExtractPost(i)
    \/ \E i \in Workers : EndPosts(i)
    \/ \E i \in Workers : Dedup(i)
    \/ \E i \in Workers : Raise(i)
    \/ Aggregate
    \/ CheckTotal
    \/ SaveLinks
    \/ ExportForTesting
    \/ SendLinks

Spec == Init /\ [][Next]_vars

\* The scraper of main.py:41-84 with the local pass of main.py:56-58 taken
\* out, up to the return of scrape_all_channels.
NextNoLocal ==
    \/ ReadArgs
    \/ Launch
    \/ \E i \in Workers : StartWorker(i)
    \/ \E i \in Workers : FetchOk(i)
    \/ \E i \in Workers : FetchNever(i)
    \/ \E i \in Workers : TakePost(i)
    \/ \E i \in Workers : ExtractPost(i)
    \/ \E i \in Workers : EndPosts(i)
    \/ \E i \in Workers : ReturnRaw(i)
    \/ \E i \in Workers : Raise(i)
    \/ Aggregate

NoLocalSpec == Init /\ [][NextNoLocal]_vars

\* main.py:247: asyncio.run drives main and the tasks it created for as long
\* as one of them can take a step.
FairSpec == Spec /\ WF_vars(Next)

\* ==================================================================== claims
\* scrape_all_channels has returned: main holds the aggregate.
Aggregated == mainpc \notin {"start", "scrape", "gather"}

Succeeded == {k \in Workers : wpc[k] = "done"}

Elems(seq) == {seq[j] : j \in 1..Len(seq)}

\* The p-sequences of the first k channels, one after the other in channel
\* order, a channel counting when it delivered a dict and is in `among`.
RECURSIVE ConcatInOrder(_, _, _)
ConcatInOrder(p, k, among) ==
    IF k = 0 THEN <<>>
    ELSE ConcatInOrder(p, k - 1, among)
             \o (IF k \in among /\ result[k].type = "dict"
                 THEN result[k].value[p] ELSE <<>>)

\* C1: the aggregate is the global pass over the per-channel results taken in
\* channel submission order, whatever the order the workers finished in: it
\* is a function of the channel list and the per-channel results alone.
C1_MergeFollowsSubmissionOrder ==
    Aggregated =>
        \A p \in ProtocolSet :
            links[p] = DedupSeq(ConcatInOrder(p, Len(channels), Workers), {})

\* The second channel finished before the first, and merging in completion
\* order would have given vmess = [y, x].
C1_Witness ==
    /\ Aggregated
    /\ completion = <<2, 1>>
    /\ result[1] = DictResult([EmptyBucket EXCEPT !["vmess"] = <<"x">>])
    /\ result[2] = DictResult([EmptyBucket EXCEPT !["vmess"] = <<"y">>])
    /\ links["vmess"] = <<"x", "y">>

\* C2: per protocol, the aggregate holds each string of the succeeded
\* channels exactly once, and two strings stand in the order of their first
\* appearance in the channel-ordered merge (first channel, then position in
\* that channel); other protocols play no part.
OccursIn(s, p, k) == s \in Elems(result[k].value[p])

FirstChannel(s, p) ==
    CHOOSE k \in Succeeded :
        OccursIn(s, p, k) /\ \A m \in Succeeded : OccursIn(s, p, m) => k <= m

FirstIndex(s, seq) ==
    CHOOSE j \in 1..Len(seq) : seq[j] = s /\ \A m \in 1..(j - 1) : seq[m] # s

AppearsBefore(a, b, p) ==
    LET ka == FirstChannel(a, p)
        kb == FirstChannel(b, p)
    IN  \/ ka < kb
        \/ /\ ka = kb
           /\ FirstIndex(a, result[ka].value[p]) < FirstIndex(b, result[kb].value[p])

C2_FirstOccurrenceMerge ==
    Aggregated =>
        \A p \in ProtocolSet :
            /\ Elems(links[p]) = UNION {Elems(result[k].value[p]) : k \in Succeeded}
            /\ \A a, b \in 1..Len(links[p]) :
                   a < b => /\ links[p][a] # links[p][b]
                            /\ AppearsBefore(links[p][a], links[p][b], p)

\* Channel 1 gave vmess = [y], channel 2 gave vmess = [x, y] and ss = [x]:
\* y is kept once, at its first place, and x stays under both protocols.
C2_Witness ==
    /\ Aggregated
    /\ Succeeded = {1, 2}
    /\ result[1].value = [EmptyBucket EXCEPT !["vmess"] = <<"y">>]
    /\ result[2].value = [EmptyBucket EXCEPT !["vmess"] = <<"x", "y">>, !["ss"] = <<"x">>]
    /\ links = [EmptyBucket EXCEPT !["vmess"] = <<"y", "x">>, !["ss"] = <<"x">>]

\* C3: a worker whose failure its handler takes, at whatever stage, yields
\* the dict that is empty for all five protocols and leaves every other
\* worker as it was; the aggregate and the total are those of the channels
\* that succeeded alone.
InTry(i) == wpc[i] \in {"fetching", "extracting", "deduplicating"}

C3_FailureYieldsEmpty ==
    \A i \in Workers :
        (InTry(i) /\ wpc'[i] = "failed") =>
            /\ result'[i] = DictResult(EmptyBucket)
            /\ \A j \in Workers \ {i} :
                   /\ result'[j] = result[j]
                   /\ wpc'[j] = wpc[j]
                   /\ all_links'[j] = all_links[j]

RECURSIVE DistinctOfSucceeded(_)
DistinctOfSucceeded(k) ==
    IF k = 0 THEN 0
    ELSE Cardinality(UNION {Elems(result[j].value[Protocols[k]]) : j \in Succeeded})
             + DistinctOfSucceeded(k - 1)

C3_AggregateOfSucceeded ==
    /\ \A i \in Workers : wpc[i] = "failed" => result[i] = DictResult(EmptyBucket)
    /\ Aggregated =>
          /\ \A p \in ProtocolSet :
                 links[p] = DedupSeq(ConcatInOrder(p, Len(channels), Succeeded), {})
          /\ TotalLinks(links) = DistinctOfSucceeded(Len(Protocols))

C3_FailureIsolated == [][C3_FailureYieldsEmpty]_vars /\ []C3_AggregateOfSucceeded

\* One channel failed, the other gave two strings, and those two are the
\* aggregate.
C3_Witness ==
    /\ Aggregated
    /\ \E i, j \in Workers :
          /\ wpc[i] = "failed"
          /\ wpc[j] = "done"
          /\ TotalLinks(result[j].value) = 2
          /\ links = result[j].value

\* C4: with a total of zero the run stops at the warning: nothing is
\* persisted, exported or forwarded, and no error is raised.
C4_ZeroResultSoftStop ==
    (Aggregated /\ TotalLinks(links) = 0) =>
        /\ mainpc \in {"scraped", "exit_zero"}
        /\ calls = <<>>
        /\ persisted = <<>>
        /\ exported = <<>>
        /\ body = <<>>
        /\ error = "none"

\* Two channels, both failed: the run has ended without a sink call.
C4_Witness ==
    /\ mainpc = "exit_zero"
    /\ Len(channels) = 2
    /\ \A i \in Workers : wpc[i] = "failed"
    /\ calls = <<>>

\* C5: when save_links raises, main ends with that error re-raised, and
\* persist is the only sink call of the run.
C5_PersistFailureIsFatal ==
    error = "save_links" =>
        /\ mainpc = "error"
        /\ calls = <<"persist">>
        /\ persisted = <<>>
        /\ exported = <<>>
        /\ body = <<>>

C5_Witness ==
    /\ mainpc = "error"
    /\ error = "save_links"
    /\ calls = <<"persist">>
    /\ TotalLinks(links) > 0

\* The document save_links writes for the aggregate main holds.
Stored == <<[links |-> links, metadata |-> Metadata]>>

\* C6: when the endpoint answers anything but 200 with a JSON body, or does
\* not answer, send_links returns the empty acknowledgement, nothing is
\* raised, the persisted aggregate stays as written and the run ends in
\* success.
ForwardFailed ==
    /\ "forward" \in Elems(calls)
    /\ (~response.transport_ok \/ response.status # 200 \/ ~response.json)

C6_ForwardFailureNotFatal ==
    ForwardFailed =>
        /\ ack = "empty"
        /\ error = "none"
        /\ mainpc = "exit_success"
        /\ persisted = Stored

\* The endpoint answered 500.
C6_Witness ==
    /\ mainpc = "exit_success"
    /\ response.transport_ok
    /\ response.status = 500
    /\ ack = "empty"
    /\ persisted = Stored

\* C7: the sink calls of a run are a prefix of persist, export, forward, and
\* the forward step is reached and made only with the aggregate persisted.
IsPrefix(s, t) == Len(s) <= Len(t) /\ \A j \in 1..Len(s) : s[j] = t[j]

C7_ForwardOnlyAfterPersist ==
    /\ IsPrefix(calls, <<"persist", "export", "forward">>)
    /\ (mainpc = "forward" \/ "forward" \in Elems(calls)) => persisted = Stored

C7_Witness ==
    /\ calls = <<"persist", "export", "forward">>
    /\ persisted = Stored
    /\ TotalLinks(links) > 0

\* C8: while one worker is stuck in its fetch, the event loop can still
\* start every worker that has not run yet.
C8_StuckWorkerBlocksOnlyItself ==
    \A i, j \in Workers :
        (i # j /\ wpc[i] = "fetching" /\ stuck[i] /\ wpc[j] = "pending")
            => ENABLED StartWorker(j)

\* C9: the file of the forward request has one line per descriptor string of
\* the aggregate, and every line is one of those strings.
C9_BodyOneLinePerLink ==
    "forward" \in Elems(calls) =>
        /\ Len(body) = TotalLinks(links)
        /\ \A j \in 1..Len(body) :
               \E p \in ProtocolSet : body[j] \in Elems(links[p])

\* C10: the run has ended.
Terminal == mainpc \in {"exit_zero", "exit_export_only", "exit_success", "error"}

Count(seq, x) == Cardinality({j \in 1..Len(seq) : seq[j] = x})

IsDedupOf(d, b) ==
    \A p \in ProtocolSet :
        /\ Elems(d[p]) = Elems(b[p])
        /\ \A m, n \in 1..Len(d[p]) :
               m < n => /\ d[p][m] # d[p][n]
                        /\ FirstIndex(d[p][m], b[p]) < FirstIndex(d[p][n], b[p])

MergedInOrder == [p \in ProtocolSet |-> ConcatInOrder(p, Len(channels), Workers)]

C11_PassStep ==
    /\ \A i \in Workers :
           (wpc[i] = "deduplicating" /\ wpc'[i] = "done") =>
               /\ result'[i].type = "dict"
               /\ IsDedupOf(result'[i].value, all_links[i])
    /\ (mainpc = "gather" /\ mainpc' = "scraped") => IsDedupOf(links', MergedInOrder)

NoRepeats(b) ==
    \A p \in ProtocolSet : \A m, n \in 1..Len(b[p]) : m # n => b[p][m] # b[p][n]

C11_Buckets ==
    /\ \A i \in Workers : wpc[i] = "done" => NoRepeats(result[i].value)
    /\ Aggregated => NoRepeats(links)

C11_DedupeFirstOccurrence == [][C11_PassStep]_vars /\ []C11_Buckets

\* Both channels returned vmess strings the other has too, in opposite
\* orders: the merged bucket is [x, y, y, x] and the aggregate is [x, y].
C11_Witness ==
    /\ Aggregated
    /\ Succeeded = {1, 2}
    /\ result[1].value["vmess"] = <<"x", "y">>
    /\ result[2].value["vmess"] = <<"y", "x">>
    /\ links["vmess"] = <<"x", "y">>

\* C12: a second pass of the Deduplicator changes nothing: over the bucket a
\* worker returned and over the aggregate, the pass gives the bucket back.
C12_DedupeIdempotent ==
    /\ \A i \in Workers :
           wpc[i] = "done" => deduplicate_links(result[i].value) = result[i].value
    /\ Aggregated => deduplicate_links(links) = links

\* The aggregate came out of a merge that held x twice under vmess and once
\* more under ss.
C12_Witness ==
    /\ Aggregated
    /\ Succeeded = {1, 2}
    /\ result[1].value = [EmptyBucket EXCEPT !["vmess"] = <<"x">>, !["ss"] = <<"x">>]
    /\ result[2].value = [EmptyBucket EXCEPT !["vmess"] = <<"x">>]
    /\ links = result[1].value

\* C13: the channel list is the lines of the file that hold something other
\* than whitespace, each without the whitespace around it, in file order;
\* with no file the list is empty, no worker is launched and the run goes
\* through the zero-result exit without a sink call.
NonBlank == {j \in 1..Len(file.lines) : Elems(file.lines[j]) \ Whitespace # {}}

\* The k-th non-blank line of the file.
KthNonBlank(k) ==
    CHOOSE j \in NonBlank : Cardinality({m \in NonBlank : m < j}) = k - 1

\* t is line without the whitespace at its two ends.
IsTrimOf(t, line) ==
    /\ t # <<>>
    /\ t[1] \notin Whitespace
    /\ t[Len(t)] \notin Whitespace
    /\ \E a \in 0..Len(line) :
          /\ a + Len(t) <= Len(line)
          /\ SubSeq(line, a + 1, a + Len(t)) = t
          /\ \A m \in (1..a) \cup ((a + Len(t) + 1)..Len(line)) :
                 line[m] \in Whitespace

C13_ChannelList ==
    mainpc # "start" =>
        IF file.exists
        THEN file.readable =>
                /\ Len(channels) = Cardinality(NonBlank)
                /\ \A k \in 1..Len(channels) :
                       IsTrimOf(channels[k], file.lines[KthNonBlank(k)])
        ELSE /\ channels = <<>>
             /\ Workers = {}
             /\ mainpc \in {"scrape", "gather", "scraped", "exit_zero"}
             /\ calls = <<>>
             /\ persisted = <<>>
             /\ error = "none"

\* The file is missing and the run has ended at the warning.
C13_Witness ==
    /\ ~file.exists
    /\ mainpc = "exit_zero"
    /\ channels = <<>>
    /\ Workers = {}
    /\ calls = <<>>

\* C14: main holds an aggregate only in states where every launched worker
\* has settled, and the step that ends the gather, taken with every worker
\* settled, is the only one that writes the merged result.
AllSettled == \A i \in Workers : wpc[i] \in {"done", "failed", "escaped"}

C14_Barrier ==
    /\ Aggregated => (AllSettled /\ running = 0)
    /\ ~Aggregated => links = EmptyBucket

C14_SoleWriter ==
    links' # links => (mainpc = "gather" /\ AllSettled /\ mainpc' = "scraped")

C14_JoinAllBarrier == []C14_Barrier /\ [][C14_SoleWriter]_vars

\* The second worker returned first, the first one failed after it, and the
\* aggregate is there.
C14_Witness ==
    /\ mainpc = "scraped"
    /\ completion = <<2, 1>>
    /\ wpc = <<"failed", "done">>
    /\ TotalLinks(links) > 0

\* C15: scrape_all_channels raises nothing whatever the workers' outcomes:
\* the run reaches an error only after a sink call, and the aggregate has
\* the five protocol keys and holds the strings of the results that are
\* dicts, a result that is an exception being passed over.
DictResults == {k \in Workers : result[k].type = "dict"}

C15_AggregatorNeverFails ==
    /\ error # "scrape_all_channels"
    /\ mainpc = "error" => calls # <<>>
    /\ DOMAIN links = ProtocolSet
    /\ Aggregated =>
          \A p \in ProtocolSet :
              Elems(links[p]) = UNION {Elems(result[k].value[p]) : k \in DictResults}

\* One worker let an exception out, the other returned strings, and the
\* aggregate is what the other returned.
C15_Witness ==
    /\ Aggregated
    /\ \E i, j \in Workers :
          /\ wpc[i] = "escaped"
          /\ result[i].type = "exception"
          /\ wpc[j] = "done"
          /\ TotalLinks(result[j].value) > 0
          /\ links = result[j].value

\* C16 as stated: the run ends with an error re-raised by main only when
\* save_links raised.
C16_AsStated == mainpc = "error" => error = "save_links"

\* C16 as amended: the run ends with an error re-raised by main exactly when
\* save_links or export_for_testing raised; a worker that failed or let an
\* exception out and a forward that failed leave the run without error.
C16_ErrorOnlyFromSaveOrExport ==
    /\ error \in {"none", "save_links", "export_for_testing"}
    /\ mainpc = "error" <=> error # "none"
    /\ error = "save_links" => calls = <<"persist">>
    /\ error = "export_for_testing" => calls = <<"persist", "export">>

\* A worker failed and the forward was answered 500, and the run ended in
\* success.
C16_Witness ==
    /\ mainpc = "exit_success"
    /\ error = "none"
    /\ \E i \in Workers : wpc[i] = "failed"
    /\ response.status = 500
    /\ calls = <<"persist", "export", "forward">>

\* C17: one worker per entry of the channel list; a worker only moves
\* forward, pending, fetching, extracting, deduplicating, done, or from one
\* of the three stages to its end by an exception, so it enters fetching
\* once; and it settles once, with one result.
ForwardMoves ==
    { <<"pending", "fetching">>, <<"fetching", "extracting">>,
      <<"extracting", "deduplicating">>, <<"deduplicating", "done">> }
        \cup ({"fetching", "extracting", "deduplicating"} \X {"failed", "escaped"})

C17_WorkerStep ==
    \A i \in Workers :
        /\ wpc'[i] # wpc[i] => <<wpc[i], wpc'[i]>> \in ForwardMoves
        /\ result'[i] # result[i] =>
               (InTry(i) /\ wpc'[i] \in {"done", "failed", "escaped"})

C17_OneWorkerOneOutcome ==
    /\ mainpc \notin {"start", "scrape"} => Workers = 1..Len(channels)
    /\ \A i \in Workers :
           /\ Count(completion, i) = (IF wpc[i] \in {"done", "failed", "escaped"} THEN 1 ELSE 0)
           /\ result[i].type = "none" <=> wpc[i] \notin {"done", "failed", "escaped"}
    /\ Len(completion) <= Len(channels)

C17_NoRetries == [][C17_WorkerStep]_vars /\ []C17_OneWorkerOneOutcome

\* The first channel failed and was not taken up again while the second ran
\* to its end.
C17_Witness ==
    /\ mainpc = "gather"
    /\ wpc = <<"failed", "done">>
    /\ completion = <<1, 2>>
    /\ result[1] = DictResult(EmptyBucket)

\* The positions of a post's text that hold a descriptor of family p.
PositionsOf(content, p) == {j \in 1..Len(content) : content[j].proto = p}

\* The k-th smallest element of a set of positions.
KthOf(J, k) == CHOOSE j \in J : Cardinality({h \in J : h <= j}) = k

\* m lists, in the order of the text, the descriptors of family p in content.
IsMatchesOf(m, content, p) ==
    /\ Len(m) = Cardinality(PositionsOf(content, p))
    /\ \A k \in 1..Len(m) : m[k] = content[KthOf(PositionsOf(content, p), k)].link

C18_LoopStep ==
    \A i \in Workers :
        /\ (wpc[i] = "fetching" /\ wpc'[i] = "extracting")
               => all_links'[i] = EmptyBucket
        /\ (wpc[i] = "extracting" /\ post = <<>> /\ wpc'[i] \in {"extracting", "deduplicating"})
               => all_links'[i] = all_links[i]
        /\ (wpc[i] = "extracting" /\ wpc'[i] = "deduplicating") => post = <<>>
        /\ (running = i /\ wpc[i] = "extracting" /\ post # <<>>)
               => IF post[1].attr /\ Len(post[1].content) > 0
                  THEN \/ wpc'[i] \in {"failed", "escaped"}
                       \/ /\ wpc'[i] = "extracting"
                          /\ post' = <<>>
                          /\ \A p \in ProtocolSet :
                                /\ IsPrefix(all_links[i][p], all_links'[i][p])
                                /\ IsMatchesOf(SubSeq(all_links'[i][p],
                                                      Len(all_links[i][p]) + 1,
                                                      Len(all_links'[i][p])),
                                               post[1].content, p)
                  ELSE /\ wpc'[i] = "extracting"
                       /\ post' = <<>>
                       /\ all_links'[i] = all_links[i]

\* C18: a worker's bucket starts empty and, until the local dedupe pass, only
\* grows by the loop body: for a post with non-empty content each family's list
\* gets that post's matches of the family appended in the order of the text,
\* and a post without content is passed over, leaving the bucket as it was and
\* the worker in the loop.
C18_BucketIsConcatenation == [][C18_LoopStep]_vars

C18_Witness ==
    \E i \in Workers :
        /\ wpc[i] = "extracting"
        /\ all_links[i]["vmess"] = <<"x">>
        /\ post = <<[attr |-> TRUE,
                     content |-> <<[proto |-> "vmess", link |-> "y"],
                                   [proto |-> "ss", link |-> "x"]>>]>>

\* The terminal states the claim lists.
C19_ListedTerminal ==
    \/ mainpc \in {"exit_zero", "exit_export_only", "exit_success"}
    \/ mainpc = "error" /\ error = "save_links"

\* C19 as stated: once every worker has settled the run reaches the zero-result
\* stop, the export-only exit, success after the forward or an error of the
\* persist step; and no run is terminal with a worker that has not settled.
C19_AsStated ==
    /\ (mainpc = "gather" /\ AllSettled) ~> C19_ListedTerminal
    /\ [](Terminal => AllSettled)

C19_StuckStays == \A i \in Workers : stuck[i] => (stuck'[i] /\ wpc'[i] = wpc[i])

\* C19 as amended: once every worker has settled the run reaches a terminal
\* state, an error of the export step among them; no run is terminal with a
\* worker that has not settled, and a worker whose fetch never returns stays
\* in its fetch for ever.
C19_RunTermination ==
    /\ (mainpc = "gather" /\ AllSettled) ~> Terminal
    /\ [](Terminal => (AllSettled /\ \A i \in Workers : ~stuck[i]))
    /\ [][C19_StuckStays]_vars

\* Both workers settled, one of them by failing, and the run ended by the
\* error of the export step.
C19_Witness ==
    /\ mainpc = "error"
    /\ error = "export_for_testing"
    /\ Len(channels) = 2
    /\ AllSettled
    /\ \E i \in Workers : wpc[i] = "failed"

\* What the workers of the program return for the buckets that the workers
\* without a local pass returned.
C20_WithLocalPass ==
    [k \in 1..Len(channels) |->
        IF result[k].type = "dict" THEN DictResult(LocalPass(result[k].value))
        ELSE result[k]]

\* C20: with the local pass taken out of every worker, the aggregate of a run
\* is the aggregate the program computes from the same buckets, which it
\* deduplicates per channel before the merge and the global pass.
C20_LocalPassChangesNothing ==
    mainpc = "scraped" => links = GlobalPass(Merge(C20_WithLocalPass))

\* The first of two workers returned a bucket with a string twice, and the
\* aggregate has it once.
C20_Witness ==
    /\ mainpc = "scraped"
    /\ Len(channels) = 2
    /\ result[1].type = "dict"
    /\ result[1].value["vmess"] = <<"x", "y", "x">>
    /\ links["vmess"] = <<"x", "y">>

====
